---- MODULE Spec2Model ----
(***************************************************************************)
(* Ensemble inference and volumetric reconstruction of                     *)
(* src/src/inference.py (generate_segmentations and the part of main that  *)
(* builds the ensemble).                                                   *)
(*                                                                         *)
(* Tensors are records [shape, val]: shape is the triple of spatial        *)
(* sizes (z, y, x) and val maps every index <<channel, z, y, x>>           *)
(* (0-based, as in Python) to a probability in tenths.  The batch          *)
(* dimension is always 1 (batch_size=1, line 110) and is left out.         *)
(* Floating-point rounding is not modelled: the mean is kept as the exact  *)
(* pair (sum, number of members).                                          *)
(* The device a tensor lives on and the deep-supervision flag (which only  *)
(* selects the primary head, lines 163-166) do not enter the state.        *)
(***************************************************************************)
EXTENDS Integers, Sequences, FiniteSets, TLC

\* ------------------------------------------------------------------ bounds
\* The canonical frame of line 174 is (155, 240, 240); the model scales it down.
FrameZ == 2
FrameY == 2
FrameX == 2
\* Largest ensemble and number of cases the loaders yield.
MaxModels == 2
NumCases == 2
\* Largest pad amount pad_batch1_to_compatible_size reports on an axis.
MaxPad == 1

\* ------------------------------------------------------- program constants
\* Output channels of every model (line 91) and of the canonical field (line 174).
NumChannels == 3
\* The decision threshold 0.5 of line 184, in tenths.
Threshold == 5

CanonicalShape == <<FrameZ, FrameY, FrameX>>

Axes == 1..3

\* The value of last_norm after line 138, and of a yaml "normalisation: null".
NoneNorm == "None"

\* What a config file may declare as normalisation (lines 61-65): the two the
\* loop knows, an unknown string, or null.
Norms == {"minmax", "zscore", "bogus", NoneNorm}

ValidNorms == {"minmax", "zscore"}

\* ----------------------------------------------------------------- tensors
Indices(shape) ==
    (0..(NumChannels - 1)) \X (0..(shape[1] - 1)) \X (0..(shape[2] - 1)) \X (0..(shape[3] - 1))

Voxels(shape) ==
    (0..(shape[1] - 1)) \X (0..(shape[2] - 1)) \X (0..(shape[3] - 1))

EmptyTensor == [shape |-> <<0, 0, 0>>, val |-> <<>>]

\* A local variable that has not been assigned yet (inputs, pads, crops_idx
\* before the first matching branch of lines 143-150).
Unbound == [variant |-> "unbound", case |-> 0, shape |-> <<0, 0, 0>>]

\* Python's slice.indices for step 1: a negative bound counts from the end,
\* and both bounds are clamped to [0, len].
PyBound(i, len) ==
    IF i < 0 THEN (IF i + len < 0 THEN 0 ELSE i + len)
    ELSE (IF i > len THEN len ELSE i)

PySlice(lo, hi, len) ==
    LET s == PyBound(lo, len)
        e == PyBound(hi, len)
    IN  [start |-> s, len |-> IF e > s THEN e - s ELSE 0]

\* ------------------------------------------------------------ collaborators
VariantCode(v) == IF v = "minmax" THEN 0 ELSE 4

\* The networks (src.models) and the augmentation (src.tta) are not part of the
\* source at hand; section 6 of the specification gives their interface: a
\* probability tensor of the input's spatial size.  Each is modelled as a fixed
\* function of the model, the input and the position.
\*
\* model(inputs) followed by sigmoid_ (lines 163-167).  Values are in tenths
\* and lie strictly between 0 and 1.
ForwardOut(m, inp) ==
    [shape |-> inp.shape,
     val   |-> [i \in Indices(inp.shape) |->
                  1 + ((3 * m + VariantCode(inp.variant) + 5 * inp.case
                        + 2 * i[1] + i[2] + 3 * i[3] + 4 * i[4]) % 9)]]

\* apply_simple_tta(model, inputs, True) (line 159): same shape, already a
\* probability.
TtaOut(m, inp) ==
    [shape |-> inp.shape,
     val   |-> [i \in Indices(inp.shape) |->
                  1 + ((3 * m + VariantCode(inp.variant) + 5 * inp.case
                        + i[1] + 2 * i[2] + 4 * i[3] + 3 * i[4]) % 9)]]

\* ------------------------------------------------------ normalisation router
\* SelectInputs with the zscore branch taking the minmax pads.
SelectInputsMixed(normalisation, last, cur, b) ==
    IF normalisation = last THEN
        [inputs |-> cur.inputs, pads |-> cur.pads, crops_idx |-> cur.crops_idx,
         transferred |-> FALSE]
    ELSE IF normalisation = "minmax" THEN
        [inputs |-> b.minmax.image, pads |-> b.minmax.pads,
         crops_idx |-> b.minmax.crop_indexes, transferred |-> TRUE]
    ELSE IF normalisation = "zscore" THEN
        [inputs |-> b.zscore.image, pads |-> b.minmax.pads,
         crops_idx |-> b.zscore.crop_indexes, transferred |-> TRUE]
    ELSE
        [inputs |-> cur.inputs, pads |-> cur.pads, crops_idx |-> cur.crops_idx,
         transferred |-> FALSE]

\* Lines 141-150: the branch taken for one model.  cur is the triple of locals
\* (inputs, pads, crops_idx) as the previous iteration -- or the previous case --
\* left it; b is the current case's pair of padded batches.
SelectInputs(normalisation, last, cur, b) ==
    IF normalisation = last THEN
        [inputs |-> cur.inputs, pads |-> cur.pads, crops_idx |-> cur.crops_idx,
         transferred |-> FALSE]
    ELSE IF normalisation = "minmax" THEN
        [inputs |-> b.minmax.image, pads |-> b.minmax.pads,
         crops_idx |-> b.minmax.crop_indexes, transferred |-> TRUE]
    ELSE IF normalisation = "zscore" THEN
        [inputs |-> b.zscore.image, pads |-> b.zscore.pads,
         crops_idx |-> b.zscore.crop_indexes, transferred |-> TRUE]
    ELSE
        [inputs |-> cur.inputs, pads |-> cur.pads, crops_idx |-> cur.crops_idx,
         transferred |-> FALSE]

\* ------------------------------------------------------------ device residency
\* model.cuda() (line 151) and model.cpu() (line 179) on the set of resident models.
AfterCuda(res, m) == res \cup {m}

\* model.cpu() that leaves the weights on the accelerator.
AfterCpuLeak(res, m) == res

AfterCpu(res, m) == res \ {m}

\* --------------------------------------------------------- reconstruction unit
\* Truncate that drops the leading instead of the trailing pad elements.
TruncateLeading(t, p) ==
    LET sl == [k \in Axes |-> PySlice(p[k], t.shape[k], t.shape[k])]
        shape == <<sl[1].len, sl[2].len, sl[3].len>>
    IN  [shape |-> shape,
         val   |-> [i \in Indices(shape) |->
                      t.val[<<i[1], i[2] + sl[1].start, i[3] + sl[2].start,
                              i[4] + sl[3].start>>]]]

\* Lines 169-171: maxz, maxy, maxx = size - pad, then pre_segs[:, :, 0:maxz,
\* 0:maxy, 0:maxx].  A negative max counts from the end of the axis.
Truncate(t, p) ==
    LET sl == [k \in Axes |-> PySlice(0, t.shape[k] - p[k], t.shape[k])]
        shape == <<sl[1].len, sl[2].len, sl[3].len>>
    IN  [shape |-> shape,
         val   |-> [i \in Indices(shape) |->
                      t.val[<<i[1], i[2] + sl[1].start, i[3] + sl[2].start,
                              i[4] + sl[3].start>>]]]

\* The view segs[0, :, slice(*c[0]), slice(*c[1]), slice(*c[2])] of the zero
\* canonical field (line 175): per axis its first index and its length.
WindowView(c) ==
    [k \in Axes |-> PySlice(c[k][1], c[k][2], CanonicalShape[k])]

\* torch's setitem copies the value expanded to the view's shape: an axis of the
\* value must have the view's length or length 1 (which is repeated).
Expandable(shape, view) ==
    \A k \in Axes : shape[k] = view[k].len \/ shape[k] = 1

\* Lines 174-175: the zero field with t copied into the window; ok is FALSE
\* when setitem raises.
Place(t, c) ==
    LET view == WindowView(c)
        InView(i) == \A k \in Axes :
                        /\ i[k + 1] >= view[k].start
                        /\ i[k + 1] < view[k].start + view[k].len
        Src(i, k) == IF t.shape[k] = 1 THEN 0 ELSE i[k + 1] - view[k].start
    IN  IF ~Expandable(t.shape, view) THEN [ok |-> FALSE, t |-> EmptyTensor]
        ELSE [ok |-> TRUE,
              t  |-> [shape |-> CanonicalShape,
                      val   |-> [i \in Indices(CanonicalShape) |->
                                   IF InView(i)
                                   THEN t.val[<<i[1], Src(i, 1), Src(i, 2), Src(i, 3)>>]
                                   ELSE 0]]]

\* ---------------------------------------------------------- ensemble aggregator
RECURSIVE SumAt(_, _, _)
SumAt(preds, n, i) ==
    IF n = 0 THEN 0 ELSE preds[n].val[i] + SumAt(preds, n - 1, i)

\* torch.stack(model_preds).mean(dim=0) (line 181): stack raises unless every
\* entry has the same shape; the mean is kept as sum and member count (den).
StackMean(preds) ==
    IF \E j \in 1..Len(preds) : preds[j].shape # preds[1].shape
    THEN [ok |-> FALSE, t |-> EmptyTensor]
    ELSE [ok |-> TRUE,
          t  |-> [shape |-> preds[1].shape,
                  den   |-> Len(preds),
                  val   |-> [i \in Indices(preds[1].shape) |->
                               SumAt(preds, Len(preds), i)]]]

\* ---------------------------------------------------------------- label decoder
\* Line 184: pre_segs[0].numpy() > 0.5 for channel c at voxel v.
Seg(avg, c, v) == avg.val[<<c, v[1], v[2], v[3]>>] > Threshold * avg.den

\* LabelAt with the labels of necrotic and edema exchanged.
LabelAtSwapped(avg, v) ==
    LET et  == Seg(avg, 0, v)
        net == Seg(avg, 1, v) /\ ~et
        ed  == Seg(avg, 2, v) /\ ~Seg(avg, 1, v)
        l0  == 0
        l1  == IF et THEN 4 ELSE l0
        l2  == IF net THEN 2 ELSE l1
        l3  == IF ed THEN 1 ELSE l2
    IN  l3

\* LabelAt with the enhancing assignment performed last.
LabelAtEnhancingLast(avg, v) ==
    LET et  == Seg(avg, 0, v)
        net == Seg(avg, 1, v) /\ ~et
        ed  == Seg(avg, 2, v) /\ ~Seg(avg, 1, v)
        l0  == 0
        l1  == IF net THEN 1 ELSE l0
        l2  == IF ed THEN 2 ELSE l1
        l3  == IF et THEN 4 ELSE l2
    IN  l3

\* Lines 185-191 at one voxel: the three masks, then the assignments 4, 1, 2
\* in program order, each overwriting what is there.
LabelAt(avg, v) ==
    LET et  == Seg(avg, 0, v)
        net == Seg(avg, 1, v) /\ ~et
        ed  == Seg(avg, 2, v) /\ ~Seg(avg, 1, v)
        l0  == 0
        l1  == IF et THEN 4 ELSE l0
        l2  == IF net THEN 1 ELSE l1
        l3  == IF ed THEN 2 ELSE l2
    IN  l3

Labelmap(avg) == [v \in Voxels(avg.shape) |-> LabelAt(avg, v)]

NoLabelmap == <<>>

\* ----------------------------------------------------------------- data loaders
\* One element of a loader after pad_batch1_to_compatible_size (lines 130-136):
\* the padded image, the pads that were added and the crop window.
PaddedBatch(variant, k, shape, p, crop) ==
    [image        |-> [variant |-> variant, case |-> k, shape |-> shape],
     pads         |-> p,
     crop_indexes |-> crop]

NoPads == <<0, 0, 0>>

NoCrop == <<<<0, 0>>, <<0, 0>>, <<0, 0>>>>

NoBatch ==
    [minmax |-> [image |-> Unbound, pads |-> NoPads, crop_indexes |-> NoCrop],
     zscore |-> [image |-> Unbound, pads |-> NoPads, crop_indexes |-> NoCrop]]

FullCrop == <<<<0, FrameZ>>, <<0, FrameY>>, <<0, FrameX>>>>

\* The cases the two loaders yield (lines 103-113), as far as the loop can tell
\* them apart: "full" has the whole frame as window and no pads under both
\* variants; "cropped" has a different window and different pads under each
\* variant; "mismatch" has a minmax image one slice longer than its window.
CaseKinds == {"full", "cropped", "mismatch"}

Batches(kind, k) ==
    IF kind = "full" THEN
        [minmax |-> PaddedBatch("minmax", k, CanonicalShape, NoPads, FullCrop),
         zscore |-> PaddedBatch("zscore", k, CanonicalShape, NoPads, FullCrop)]
    ELSE IF kind = "cropped" THEN
        [minmax |-> PaddedBatch("minmax", k, <<FrameZ + 1, FrameY, FrameX>>, <<1, 0, 1>>,
                                <<<<0, FrameZ>>, <<0, FrameY>>, <<0, FrameX - 1>>>>),
         zscore |-> PaddedBatch("zscore", k, <<FrameZ - 1, FrameY, FrameX>>, <<0, 1, 0>>,
                                <<<<1, FrameZ>>, <<1, FrameY>>, <<0, FrameX>>>>)]
    ELSE
        [minmax |-> PaddedBatch("minmax", k, <<FrameZ + 1, FrameY, FrameX>>, NoPads, FullCrop),
         zscore |-> PaddedBatch("zscore", k, <<FrameZ - 1, FrameY, FrameX>>, <<0, 1, 0>>,
                                <<<<1, FrameZ>>, <<1, FrameY>>, <<0, FrameX>>>>)]

\* -------------------------------------------------------------------- state
VARIABLES
    normalisations,  \* normalisations_list (line 98), one entry per model
    tta,             \* args.tta
    pc,              \* position in generate_segmentations
    case,            \* i + 1 of line 124: the number of the current case
    batch,           \* the padded minmax and zscore batches of the current case
    mi,              \* position of the ensemble loop of line 140
    last_norm,       \* line 138
    inputs,          \* locals of lines 144-150; they outlive a case
    pads,
    crops_idx,
    pre_segs,        \* lines 159-171, and the mean of line 181
    model_preds,     \* line 137
    resident,        \* the models whose weights are on the accelerator
    labelmap,        \* lines 188-191
    written,         \* the cases whose label volume WriteImage has written
    transfers,       \* history: inputs_*.cuda() calls of the current case
    forwards         \* history: the forward computations performed so far

vars == <<normalisations, tta, pc, case, batch, mi, last_norm, inputs, pads,
          crops_idx, pre_segs, model_preds, resident, labelmap, written,
          transfers, forwards>>

NumModels == Len(normalisations)

\* main (lines 56-117) up to the call of generate_segmentations: every config
\* contributes its declared normalisation unchecked.
Init ==
    /\ \E n \in 1..MaxModels : normalisations \in [1..n -> Norms]
    /\ tta \in BOOLEAN
    /\ pc = "loader"
    /\ case = 0
    /\ batch = NoBatch
    /\ mi = 0
    /\ last_norm = NoneNorm
    /\ inputs = Unbound
    /\ pads = NoPads
    /\ crops_idx = NoCrop
    /\ pre_segs = EmptyTensor
    /\ model_preds = <<>>
    /\ resident = {}
    /\ labelmap = NoLabelmap
    /\ written = {}
    /\ transfers = 0
    /\ forwards = {}

\* Lines 124-138: the loaders yield the next case.
NextCase ==
    /\ pc = "loader"
    /\ case < NumCases
    /\ \E kind \in CaseKinds : batch' = Batches(kind, case + 1)
    /\ case' = case + 1
    /\ model_preds' = <<>>
    /\ last_norm' = NoneNorm
    /\ mi' = 1
    /\ transfers' = 0
    /\ pc' = "select"
    /\ UNCHANGED <<normalisations, tta, inputs, pads, crops_idx, pre_segs,
                   resident, labelmap, written, forwards>>

\* Line 124: the loaders are exhausted and generate_segmentations returns.
Finish ==
    /\ pc = "loader"
    /\ case = NumCases
    /\ pc' = "done"
    /\ UNCHANGED <<normalisations, tta, case, batch, mi, last_norm, inputs, pads,
                   crops_idx, pre_segs, model_preds, resident, labelmap, written,
                   transfers, forwards>>

\* Lines 140-150.  No statement of the loop body assigns last_norm.
SelectStep ==
    /\ pc = "select"
    /\ LET r == SelectInputs(normalisations[mi], last_norm,
                             [inputs |-> inputs, pads |-> pads, crops_idx |-> crops_idx],
                             batch)
       IN  /\ inputs' = r.inputs
           /\ pads' = r.pads
           /\ crops_idx' = r.crops_idx
           /\ transfers' = IF r.transferred THEN transfers + 1 ELSE transfers
    /\ pc' = "cuda"
    /\ UNCHANGED <<normalisations, tta, case, batch, mi, last_norm, pre_segs,
                   model_preds, resident, labelmap, written, forwards>>

\* Line 151.
CudaStep ==
    /\ pc = "cuda"
    /\ resident' = AfterCuda(resident, mi)
    /\ pc' = "forward"
    /\ UNCHANGED <<normalisations, tta, case, batch, mi, last_norm, inputs, pads,
                   crops_idx, pre_segs, model_preds, labelmap, written, transfers,
                   forwards>>

\* Lines 158-166 when no branch of lines 143-150 has ever bound inputs: the
\* read of inputs raises UnboundLocalError, which nothing catches.
ForwardUnbound ==
    /\ pc = "forward"
    /\ inputs = Unbound
    /\ pc' = "failed"
    /\ UNCHANGED <<normalisations, tta, case, batch, mi, last_norm, inputs, pads,
                   crops_idx, pre_segs, model_preds, resident, labelmap, written,
                   transfers, forwards>>

\* Lines 158-167 when the forward computation raises (an inference failure).
ForwardRaises ==
    /\ pc = "forward"
    /\ inputs # Unbound
    /\ pc' = "failed"
    /\ UNCHANGED <<normalisations, tta, case, batch, mi, last_norm, inputs, pads,
                   crops_idx, pre_segs, model_preds, resident, labelmap, written,
                   transfers, forwards>>

\* Lines 158-167: with tta the augmented prediction is appended to model_preds
\* as it is (line 160); without, the primary head's sigmoid is taken.
ForwardStep ==
    /\ pc = "forward"
    /\ inputs # Unbound
    /\ pre_segs' = IF tta THEN TtaOut(mi, inputs) ELSE ForwardOut(mi, inputs)
    /\ model_preds' = IF tta THEN Append(model_preds, pre_segs') ELSE model_preds
    /\ forwards' = forwards \cup {[case |-> case, model |-> mi, input |-> inputs]}
    /\ pc' = "recon"
    /\ UNCHANGED <<normalisations, tta, case, batch, mi, last_norm, inputs, pads,
                   crops_idx, resident, labelmap, written, transfers>>

\* Lines 169-178 when the assignment of line 175 succeeds.
ReconStep ==
    /\ pc = "recon"
    /\ LET tr == Truncate(pre_segs, pads)
           pl == Place(tr, crops_idx)
       IN  /\ pl.ok
           /\ pre_segs' = tr
           /\ model_preds' = Append(model_preds, pl.t)
    /\ pc' = "cpu"
    /\ UNCHANGED <<normalisations, tta, case, batch, mi, last_norm, inputs, pads,
                   crops_idx, resident, labelmap, written, transfers, forwards>>

\* Lines 169-175 when the assignment of line 175 raises: nothing catches it.
ReconRaises ==
    /\ pc = "recon"
    /\ LET tr == Truncate(pre_segs, pads)
           pl == Place(tr, crops_idx)
       IN  /\ ~pl.ok
           /\ pre_segs' = tr
    /\ pc' = "failed"
    /\ UNCHANGED <<normalisations, tta, case, batch, mi, last_norm, inputs, pads,
                   crops_idx, model_preds, resident, labelmap, written, transfers,
                   forwards>>

\* Line 179, then the loop of line 140 advances or ends.
CpuStep ==
    /\ pc = "cpu"
    /\ resident' = AfterCpu(resident, mi)
    /\ IF mi < NumModels
       THEN mi' = mi + 1 /\ pc' = "select"
       ELSE mi' = mi /\ pc' = "reduce"
    /\ UNCHANGED <<normalisations, tta, case, batch, last_norm, inputs, pads,
                   crops_idx, pre_segs, model_preds, labelmap, written, transfers,
                   forwards>>

\* Line 181.
ReduceStep ==
    /\ pc = "reduce"
    /\ LET r == StackMean(model_preds)
       IN  /\ r.ok
           /\ pre_segs' = r.t
    /\ pc' = "decode"
    /\ UNCHANGED <<normalisations, tta, case, batch, mi, last_norm, inputs, pads,
                   crops_idx, model_preds, resident, labelmap, written, transfers,
                   forwards>>

\* Line 181 when torch.stack raises on entries of different shapes.
ReduceRaises ==
    /\ pc = "reduce"
    /\ ~StackMean(model_preds).ok
    /\ pc' = "failed"
    /\ UNCHANGED <<normalisations, tta, case, batch, mi, last_norm, inputs, pads,
                   crops_idx, pre_segs, model_preds, resident, labelmap, written,
                   transfers, forwards>>

\* Lines 184-191.
DecodeStep ==
    /\ pc = "decode"
    /\ labelmap' = Labelmap(pre_segs)
    /\ pc' = "write"
    /\ UNCHANGED <<normalisations, tta, case, batch, mi, last_norm, inputs, pads,
                   crops_idx, pre_segs, model_preds, resident, written, transfers,
                   forwards>>

\* Lines 192-196.
WriteStep ==
    /\ pc = "write"
    /\ written' = written \cup {case}
    /\ pc' = "loader"
    /\ UNCHANGED <<normalisations, tta, case, batch, mi, last_norm, inputs, pads,
                   crops_idx, pre_segs, model_preds, resident, labelmap, transfers,
                   forwards>>

\* Lines 193-196 when ReadImage or WriteImage raises: nothing catches it.
WriteRaises ==
    /\ pc = "write"
    /\ pc' = "failed"
    /\ UNCHANGED <<normalisations, tta, case, batch, mi, last_norm, inputs, pads,
                   crops_idx, pre_segs, model_preds, resident, labelmap, written,
                   transfers, forwards>>

Next ==
    \/ NextCase
    \/ Finish
    \/ SelectStep
    \/ CudaStep
    \/ ForwardUnbound
    \/ ForwardRaises
    \/ ForwardStep
    \/ ReconStep
    \/ ReconRaises
    \/ CpuStep
    \/ ReduceStep
    \/ ReduceRaises
    \/ DecodeStep
    \/ WriteStep
    \/ WriteRaises

Spec == Init /\ [][Next]_vars

\* ======================================================================
\* Properties of the ensemble loop (specification Spec)
\* ======================================================================

AllValid == \A j \in 1..NumModels : normalisations[j] \in ValidNorms

\* C1: at every instant at most one model is resident on the accelerator, and
\* it is the model of the current loop iteration; no model is resident when
\* model.cuda() is about to be called (so the previous model.cuda() has been
\* followed by that model's model.cpu()), nor when the reduction, the label
\* decoding or the write of a case run.
OneModelResident ==
    /\ Cardinality(resident) <= 1
    /\ resident \subseteq {mi}
    /\ (pc = "cuda" => resident = {})
    /\ (pc \in {"reduce", "decode", "write", "loader", "done"} => resident = {})

\* The second model of the ensemble is resident during the second case.
OneModelResidentWitness ==
    /\ pc = "recon"
    /\ case = 2
    /\ mi = 2
    /\ resident = {2}
    /\ \E f \in forwards : f.case = 2 /\ f.model = 1

\* C2 (as claimed): when the ensemble loop finishes, model_preds holds exactly
\* one entry per ensemble member, each of the canonical shape, with or
\* without test-time augmentation.
AccumulatorOnePerMember ==
    pc = "reduce" =>
        /\ Len(model_preds) = NumModels
        /\ \A j \in 1..Len(model_preds) : model_preds[j].shape = CanonicalShape

\* C6 (as claimed): an error while processing case k abandons only case k, so
\* when the run has ended every case but the failing ones has been written.
\* The run ends at the first error, so the failing case is the current one.
PerCaseErrorIsolated ==
    (AllValid /\ pc \in {"done", "failed"}) =>
        \A k \in 1..NumCases : k \in written \/ (pc = "failed" /\ k = case)

\* C7 (as claimed): with a member whose normalisation is neither "minmax" nor
\* "zscore" no forward computation is ever performed, and no model runs on an
\* input of another variant than its own.
UnknownNormalisationAborts ==
    /\ (~AllValid => forwards = {})
    /\ \A f \in forwards : f.input.variant = normalisations[f.model]

\* The reference router of C8: it selects the batch of the model's own variant
\* afresh for every model.
RefBatch(j) == batch[normalisations[j]]

RefRaw(j) ==
    IF tta THEN TtaOut(j, RefBatch(j).image) ELSE ForwardOut(j, RefBatch(j).image)

RefPlaced(j) == Place(Truncate(RefRaw(j), RefBatch(j).pads), RefBatch(j).crop_indexes)

RECURSIVE RefPreds(_)
RefPreds(n) ==
    IF n = 0 THEN <<>>
    ELSE RefPreds(n - 1) \o (IF tta THEN <<RefRaw(n)>> ELSE <<>>) \o <<RefPlaced(n).t>>

RefOk ==
    /\ \A j \in 1..NumModels : RefPlaced(j).ok
    /\ StackMean(RefPreds(NumModels)).ok

RefLabelmap == Labelmap(StackMean(RefPreds(NumModels)).t)

\* C8: for every ensemble order over "minmax" and "zscore" members, the forward
\* call, the pad truncation and the window placement of each model use the
\* input, pads and crop window of that model's own variant for the current
\* case, and the label volume handed to the writer is the one the reference
\* router produces.
RouterUsesOwnVariant ==
    /\ (pc \in {"cuda", "forward", "recon"} /\ normalisations[mi] \in ValidNorms) =>
           /\ inputs = RefBatch(mi).image
           /\ pads = RefBatch(mi).pads
           /\ crops_idx = RefBatch(mi).crop_indexes
    /\ (pc = "write" /\ AllValid) => (RefOk /\ labelmap = RefLabelmap)

\* A label volume is about to be written in the second case for an ensemble
\* that switches variant, on a case whose variants have different windows.
RouterUsesOwnVariantWitness ==
    /\ pc = "write"
    /\ case = 2
    /\ AllValid
    /\ NumModels >= 2
    /\ normalisations[1] # normalisations[2]
    /\ batch.minmax.crop_indexes # batch.zscore.crop_indexes
    /\ \E v \in DOMAIN labelmap : labelmap[v] # 0

VariantChanges ==
    Cardinality({j \in 2..NumModels : normalisations[j] # normalisations[j - 1]})

\* C9 (as claimed): the number of input transfers of a case equals the number
\* of variant changes along the ensemble order plus one.
TransfersOnlyOnVariantChange ==
    (pc = "reduce" /\ AllValid) => transfers = VariantChanges + 1

\* ======================================================================
\* The reconstruction unit on its own (specification SpecRecon)
\* ======================================================================

\* What one axis of a raw prediction, its pad and its crop window can be.
\* AxisFitting: the window lies in a frame axis of length F and its span is
\* the raw size less the pad.  AxisOther: a raw axis of one element under a
\* wider window, a raw axis longer or shorter than the window, a pad larger
\* than the raw axis, a window that runs past the frame, a window that starts
\* before it.
AxisFitting(F) ==
    UNION {{[size |-> (hi - lo) + p, pad |-> p, lo |-> lo, hi |-> hi] :
                hi \in lo..F, p \in 0..MaxPad} : lo \in 0..F}

AxisOther(F) ==
    {[size |-> 1,     pad |-> 0, lo |-> 0,     hi |-> F],
     [size |-> F + 1, pad |-> 0, lo |-> 0,     hi |-> F],
     [size |-> F - 1, pad |-> 0, lo |-> 0,     hi |-> F],
     [size |-> 2,     pad |-> 3, lo |-> 0,     hi |-> 1],
     [size |-> 2,     pad |-> 0, lo |-> F - 2, hi |-> F + 1],
     [size |-> 2,     pad |-> 0, lo |-> 0 - 2, hi |-> F]}

AxisInputs(F) == AxisFitting(F) \cup AxisOther(F)

\* The loop of a one-model ensemble just after the forward computation of lines
\* 158-167 on the first case, with and without augmentation, for any raw shape,
\* pads and crop window.
InitRecon ==
    \E az \in AxisInputs(FrameZ), ay \in AxisInputs(FrameY), ax \in AxisInputs(FrameX) :
        LET b == PaddedBatch("minmax", 1, <<az.size, ay.size, ax.size>>,
                             <<az.pad, ay.pad, ax.pad>>,
                             <<<<az.lo, az.hi>>, <<ay.lo, ay.hi>>, <<ax.lo, ax.hi>>>>)
        IN  /\ normalisations = <<"minmax">>
            /\ tta \in BOOLEAN
            /\ pc = "recon"
            /\ case = 1
            /\ batch = [minmax |-> b, zscore |-> b]
            /\ mi = 1
            /\ last_norm = NoneNorm
            /\ inputs = b.image
            /\ pads = b.pads
            /\ crops_idx = b.crop_indexes
            /\ pre_segs = IF tta THEN TtaOut(1, b.image) ELSE ForwardOut(1, b.image)
            /\ model_preds = IF tta THEN <<TtaOut(1, b.image)>> ELSE <<>>
            /\ resident = {1}
            /\ labelmap = NoLabelmap
            /\ written = {}
            /\ transfers = 1
            /\ forwards = {[case |-> 1, model |-> 1, input |-> b.image]}

NextRecon ==
    \/ ReconStep
    \/ ReconRaises

SpecRecon == InitRecon /\ [][NextRecon]_vars

\* The pad-truncated prediction fits the crop window on axis k: the pad does not
\* exceed the raw size, the window lies in the canonical frame, and its span is
\* the raw size less the pad.
FitsAxis(k) ==
    /\ pads[k] >= 0
    /\ pads[k] <= inputs.shape[k]
    /\ 0 <= crops_idx[k][1]
    /\ crops_idx[k][1] <= crops_idx[k][2]
    /\ crops_idx[k][2] <= CanonicalShape[k]
    /\ crops_idx[k][2] - crops_idx[k][1] = inputs.shape[k] - pads[k]

InWindow(i) ==
    \A k \in Axes : crops_idx[k][1] <= i[k + 1] /\ i[k + 1] < crops_idx[k][2]

\* C4: for every pad amount and every crop window inside the canonical frame
\* whose span is the raw size less the pad, reconstruction succeeds and the
\* field appended to model_preds equals the raw prediction, without its
\* trailing pads, at the window's offsets and is 0 everywhere else.
ReconstructionPlacesCrop ==
    (\A k \in Axes : FitsAxis(k)) =>
        /\ pc # "failed"
        /\ pc = "cpu" =>
             LET raw   == IF tta THEN TtaOut(mi, inputs) ELSE ForwardOut(mi, inputs)
                 field == model_preds[Len(model_preds)]
             IN  /\ field.shape = CanonicalShape
                 /\ DOMAIN field.val = Indices(CanonicalShape)
                 /\ \A i \in Indices(CanonicalShape) :
                        field.val[i] =
                            IF InWindow(i)
                            THEN raw.val[<<i[1], i[2] - crops_idx[1][1],
                                           i[3] - crops_idx[2][1],
                                           i[4] - crops_idx[3][1]>>]
                            ELSE 0

\* A padded prediction has been placed into a window that starts inside the
\* frame on the first axis and ends inside it on the last.
ReconstructionPlacesCropWitness ==
    /\ pc = "cpu"
    /\ \A k \in Axes : FitsAxis(k)
    /\ pads = <<1, 0, 1>>
    /\ crops_idx[1][1] = 1
    /\ crops_idx[3][2] = FrameX - 1
    /\ \A k \in Axes : crops_idx[k][2] > crops_idx[k][1]

\* C5 (as claimed): reconstruction raises whenever the pad-truncated prediction
\* does not fit the crop window on some axis, so a field is only ever appended
\* when it fits on every axis.
ReconstructionRejectsMisfit ==
    pc = "cpu" => \A k \in Axes : FitsAxis(k)

\* ======================================================================
\* The label decoder on its own (specification SpecDecode)
\* ======================================================================

\* Averaged probabilities in tenths: below, at and above the threshold.
ProbLevels == {1, 5, 9}

ProbTriples == ProbLevels \X ProbLevels \X ProbLevels

\* A canonical field that holds the channel triple a at the first voxel and the
\* triple b at every other voxel.
TwoTripleField(a, b) ==
    [shape |-> CanonicalShape,
     val   |-> [i \in Indices(CanonicalShape) |->
                  IF <<i[2], i[3], i[4]>> = <<0, 0, 0>> THEN a[i[1] + 1] ELSE b[i[1] + 1]]]

\* The loop just before the reduction of line 181 on the first case, for an
\* ensemble of n members without augmentation: every member's field holds one
\* channel triple at all voxels, except that the only member of a one-model
\* ensemble may hold another triple at the first voxel.
InitDecode ==
    \E n \in 1..MaxModels :
      \E ts \in [1..n -> ProbTriples] :
        \E a \in (IF n = 1 THEN ProbTriples ELSE {ts[1]}) :
            /\ normalisations = [j \in 1..n |-> "minmax"]
            /\ tta = FALSE
            /\ pc = "reduce"
            /\ case = 1
            /\ batch = Batches("full", 1)
            /\ mi = n
            /\ last_norm = NoneNorm
            /\ inputs = Batches("full", 1).minmax.image
            /\ pads = NoPads
            /\ crops_idx = FullCrop
            /\ pre_segs = TwoTripleField(ts[n], ts[n])
            /\ model_preds = [j \in 1..n |->
                                TwoTripleField(IF j = 1 THEN a ELSE ts[j], ts[j])]
            /\ resident = {}
            /\ labelmap = NoLabelmap
            /\ written = {}
            /\ transfers = n
            /\ forwards = {[case |-> 1, model |-> j,
                            input |-> Batches("full", 1).minmax.image] : j \in 1..n}

NextDecode ==
    \/ ReduceStep
    \/ DecodeStep

SpecDecode == InitDecode /\ [][NextDecode]_vars

\* The thresholded mask of channel c at voxel v, stated on the averaged field:
\* probability sum / den / 10 above one half.
MaskAt(c, v) == 2 * pre_segs.val[<<c, v[1], v[2], v[3]>>] > 10 * pre_segs.den

Nested(v) == (MaskAt(0, v) => MaskAt(1, v)) /\ (MaskAt(1, v) => MaskAt(2, v))

\* C3: at every voxel whose masks are nested the label is 4 if mask0, 1 if
\* mask1 and not mask0, 2 if mask2 and not mask1, 0 otherwise; and at every
\* voxel whatsoever the label is one of 0, 1, 2, 4.
DecodeHierarchy ==
    pc = "write" =>
        /\ DOMAIN labelmap = Voxels(CanonicalShape)
        /\ \A v \in Voxels(CanonicalShape) :
              /\ labelmap[v] \in {0, 1, 2, 4}
              /\ Nested(v) =>
                    labelmap[v] = IF MaskAt(0, v) THEN 4
                                  ELSE IF MaskAt(1, v) THEN 1
                                  ELSE IF MaskAt(2, v) THEN 2
                                  ELSE 0

\* A decoded volume with an enhancing voxel next to a necrotic or edema one.
DecodeHierarchyWitness ==
    /\ pc = "write"
    /\ pre_segs.den = 1
    /\ \A v \in Voxels(CanonicalShape) : Nested(v)
    /\ labelmap[<<0, 0, 0>>] = 4
    /\ labelmap[<<1, 1, 1>>] \in {1, 2}

EtAt(v) == MaskAt(0, v)

NetAt(v) == MaskAt(1, v) /\ ~MaskAt(0, v)

EdAt(v) == MaskAt(2, v) /\ ~MaskAt(1, v)

\* C10 (as claimed): for every combination of the three masks the decoded
\* enhancing, necrotic and edema masks are pairwise disjoint, and a voxel whose
\* channel-0 probability exceeds 0.5 is labelled 4.
DecodedMasksDisjoint ==
    pc = "write" =>
        \A v \in Voxels(CanonicalShape) :
            /\ ~(EtAt(v) /\ NetAt(v))
            /\ ~(NetAt(v) /\ EdAt(v))
            /\ ~(EtAt(v) /\ EdAt(v))
            /\ MaskAt(0, v) => labelmap[v] = 4

\* C10 (amended): enhancing and necrotic are disjoint, necrotic and edema are
\* disjoint, and enhancing and edema overlap exactly where mask0 and mask2 hold
\* and mask1 does not.  There the last assignment wins and the label is 2;
\* everywhere else at most one decoded mask holds, the label is that mask's
\* (so the order of the assignments does not matter) and a voxel whose
\* channel-0 probability exceeds 0.5 is labelled 4.
DecodedMasksOverlapOnlyEtEd ==
    pc = "write" =>
        \A v \in Voxels(CanonicalShape) :
            /\ ~(EtAt(v) /\ NetAt(v))
            /\ ~(NetAt(v) /\ EdAt(v))
            /\ (EtAt(v) /\ EdAt(v)) <=> (MaskAt(0, v) /\ MaskAt(2, v) /\ ~MaskAt(1, v))
            /\ (EtAt(v) /\ EdAt(v)) => labelmap[v] = 2
            /\ ~(EtAt(v) /\ EdAt(v)) =>
                  /\ (EtAt(v) => labelmap[v] = 4)
                  /\ (NetAt(v) => labelmap[v] = 1)
                  /\ (EdAt(v) => labelmap[v] = 2)
                  /\ (~EtAt(v) /\ ~NetAt(v) /\ ~EdAt(v)) => labelmap[v] = 0

\* A voxel above the threshold on channels 0 and 2 but not on channel 1 has
\* been decoded, next to a voxel whose masks are nested.
DecodedMasksOverlapWitness ==
    /\ pc = "write"
    /\ MaskAt(0, <<0, 0, 0>>) /\ ~MaskAt(1, <<0, 0, 0>>) /\ MaskAt(2, <<0, 0, 0>>)
    /\ labelmap[<<0, 0, 0>>] = 2
    /\ labelmap[<<1, 1, 1>>] = 4

====
